---------------------------- MODULE Spec2Model ----------------------------
(***************************************************************************)
(* A model of two parts of sourcecred:                                     *)
(*                                                                         *)
(*   - the TimelineExplorer React component (src/unnamed/part_000), which  *)
(*     holds a TimelineCred, an editable copy of its weights and params,   *)
(*     and re-computes cred through TimelineCred.reanalyze;                *)
(*   - the `sourcecred init` command (src/src/cli/init.js).                *)
(*                                                                         *)
(* Objects whose identity matters (the weights objects) live in a heap: a  *)
(* reference is an index into the sequence `heap`, an allocation appends.  *)
(* Numbers alpha and intervalDecay are kept in hundredths (0.05 is 5).     *)
(* A string that the code inspects is a sequence of lexemes, cut so that   *)
(* a final "/" is a lexeme of its own                                      *)
(* (<<"https:/", "/", "d", "/">> is "https://d/").                         *)
(***************************************************************************)
EXTENDS Naturals, Sequences, FiniteSets

VARIABLES
    \* TimelineExplorer
    heap,       \* the weights objects: heap[r] is the content of reference r
    tcs,        \* the TimelineCred objects, in order of creation; tcs[1] is
                \* props.initialTimelineCred
    calls,      \* the analyzeCred invocations, in order of invocation
    inflight,   \* the invocations whose reanalyze promise is still pending
    state,      \* this.state
    \* sourcecred init
    args,       \* the argument list of the command
    env,        \* the value of SOURCECRED_GITHUB_TOKEN
    file,       \* sourcecred.json in the current directory
    pc,         \* where the command is
    opts,       \* withForce, printToStdOut, discourseUrl, githubSpecs
    i,          \* initCommand's loop index (0-based, as in the code)
    locals,     \* init's and generateProject's locals
    stdout,     \* what was passed to std.out, in order
    stderr,     \* what was passed to std.err, in order
    exitCode,   \* the command's result
    trace       \* the external effects of the command, in order

evars == <<heap, tcs, calls, inflight, state>>
cvars == <<args, env, file, pc, opts, i, locals, stdout, stderr, exitCode, trace>>
vars == <<heap, tcs, calls, inflight, state,
          args, env, file, pc, opts, i, locals, stdout, stderr, exitCode, trace>>

-----------------------------------------------------------------------------
(* Bounds of the model *)

MaxHeap == 4        \* weights objects allocated in a behaviour
MaxArgs == 3        \* length of the command's argument list

-----------------------------------------------------------------------------
(* TimelineExplorer: values *)

\* The alpha slider: min, max and step of the range input, in hundredths.
SliderMin == 5
SliderMax == 95
SliderStep == 5

SliderValuesBug ==
    {v \in 0..100 : v % SliderStep = 0}

\* Every value the range input can report through valueAsNumber.
SliderValues ==
    {v \in SliderMin..SliderMax : (v - SliderMin) % SliderStep = 0}

\* The slider positions the model tries: both ends.
SliderInputs ==
    {v \in SliderValues :
        \/ \A u \in SliderValues : v <= u
        \/ \A u \in SliderValues : v >= u}

\* The prefixes the plugin declarations give (props.pluginDeclarations).
NodePrefixes == {"n"}
EdgePrefixes == {"e"}
NodeWeightValues == {1, 2}
EdgeWeightValues == {[forwards |-> 2, backwards |-> 1]}

\* The values of the <option>s of the filter select: "" is "All users".
FilterOptionValues == {""} \cup NodePrefixes

\* NodeAddressT | null
Null == <<>>
Some(x) == <<x>>

\* A Map: a function on the keys it has.
MapSet(m, k, v) == [x \in (DOMAIN m) \cup {k} |-> IF x = k THEN v ELSE m[x]]
EmptyMap == [x \in {} |-> 0]

\* Weights.copy: a new object whose two maps are new Maps of the old entries.
WeightsCopy(w) ==
    [nodeWeights |-> [k \in DOMAIN w.nodeWeights |-> w.nodeWeights[k]],
     edgeWeights |-> [k \in DOMAIN w.edgeWeights |-> w.edgeWeights[k]]]

\* lodash.isequal on two Maps: same size, and every entry of one is an entry
\* of the other (unordered).
DeepEqualMap(a, b) ==
    /\ Cardinality(DOMAIN a) = Cardinality(DOMAIN b)
    /\ \A k \in DOMAIN a : k \in DOMAIN b /\ a[k] = b[k]

DeepEqualWeights(a, b) ==
    /\ DeepEqualMap(a.nodeWeights, b.nodeWeights)
    /\ DeepEqualMap(a.edgeWeights, b.edgeWeights)

DeepEqualParams(p, q) ==
    /\ p.alpha = q.alpha
    /\ p.intervalDecay = q.intervalDecay

\* The initial TimelineCreds the model starts from: their params and weights.
InitAlphas == {97}
InitIntervalDecays == {0, 100}
InitWeights == {[nodeWeights |-> [k \in {"n"} |-> 1], edgeWeights |-> EmptyMap]}

\* The weight files a user uploads.
UploadedWeights ==
    {[nodeWeights |-> [k \in {"n"} |-> 1], edgeWeights |-> EmptyMap]}

-----------------------------------------------------------------------------
(* TimelineExplorer: the component *)

\* The command's variables while the explorer runs: no command is running.
CliIdle ==
    /\ args = <<>>
    /\ env = <<>>
    /\ file = <<>>
    /\ pc = "idle"
    /\ opts = <<>>
    /\ i = 0
    /\ locals = <<>>
    /\ stdout = <<>>
    /\ stderr = <<>>
    /\ exitCode = <<>>
    /\ trace = <<>>

\* constructor(props): the state holds the initial TimelineCred, its params,
\* and a copy of its weights.
ConstructorNoCopy(alpha, intervalDecay, w) ==
    /\ heap = <<w>>
    /\ tcs = <<[weights |-> 1,
                params |-> [alpha |-> alpha, intervalDecay |-> intervalDecay],
                call |-> 0]>>
    /\ state = [timelineCred |-> 1,
                alpha |-> alpha,
                intervalDecay |-> intervalDecay,
                weights |-> 1,
                loading |-> FALSE,
                showWeightConfig |-> FALSE,
                selectedNodeTypePrefix |-> Null]

Constructor(alpha, intervalDecay, w) ==
    /\ heap = <<w, WeightsCopy(w)>>
    /\ tcs = <<[weights |-> 1,
                params |-> [alpha |-> alpha, intervalDecay |-> intervalDecay],
                call |-> 0]>>
    /\ state = [timelineCred |-> 1,
                alpha |-> tcs[1].params.alpha,
                intervalDecay |-> tcs[1].params.intervalDecay,
                weights |-> 2,
                loading |-> FALSE,
                showWeightConfig |-> FALSE,
                selectedNodeTypePrefix |-> Null]

Init ==
    /\ \E alpha \in InitAlphas, intervalDecay \in InitIntervalDecays, w \in InitWeights :
          Constructor(alpha, intervalDecay, w)
    /\ calls = <<>>
    /\ inflight = {}
    /\ CliIdle

\* params(): the alpha and intervalDecay of the state.
Params == [alpha |-> state.alpha, intervalDecay |-> state.intervalDecay]

\* weights(): a copy of state.weights, a new object. The heap after the call,
\* and the reference returned.
WeightsNoCopy == [heap |-> heap, ref |-> state.weights]

Weights ==
    [heap |-> Append(heap, WeightsCopy(heap[state.weights])),
     ref |-> Len(heap) + 1]

\* TimelineCred.reanalyze(weights, params), called on TimelineCred `base` by
\* invocation `c`: a new TimelineCred of the weights and params it was given.
Reanalyze(base, w, p, c) == [weights |-> w, params |-> p, call |-> c]

\* The held TimelineCred.
Held == tcs[state.timelineCred]

\* renderConfigurationRow: paramsUpToDate and the button's disabled attribute.
ParamsUpToDateParamsOnly ==
    DeepEqualParams(Params, Held.params)

ParamsUpToDate ==
    /\ DeepEqualParams(Params, Held.params)
    /\ DeepEqualWeights(Weights.heap[Weights.ref], heap[Held.weights])

ButtonDisabled == state.loading \/ ParamsUpToDate

\* analyzeCred() up to its await: loading is set, and reanalyze is called on
\* the held TimelineCred with weights() and params().
AnalyzeCredStart ==
    /\ Len(heap) < MaxHeap
    /\ heap' = Weights.heap
    /\ calls' = Append(calls, [weights |-> Weights.ref,
                               params |-> Params,
                               base |-> state.timelineCred])
    /\ inflight' = inflight \cup {Len(calls) + 1}
    /\ state' = [state EXCEPT !.loading = TRUE]
    /\ UNCHANGED <<tcs>>
    /\ UNCHANGED cvars

\* onClick of the "re-compute cred" button.
ClickAnalyzeButton ==
    /\ ~ButtonDisabled
    /\ AnalyzeCredStart

\* analyzeCred() called on the component, not through the button.
CallAnalyzeCred == AnalyzeCredStart

\* analyzeCred() after its await: the promise of invocation c has resolved.
AnalyzeCredResolve(c) ==
    /\ c \in inflight
    /\ tcs' = Append(tcs, Reanalyze(calls[c].base, calls[c].weights, calls[c].params, c))
    /\ state' = [state EXCEPT !.timelineCred = Len(tcs) + 1, !.loading = FALSE]
    /\ inflight' = inflight \ {c}
    /\ UNCHANGED <<heap, calls>>
    /\ UNCHANGED cvars

\* WeightsFileManager's onWeightsChange: the uploaded weights, a new object,
\* become state.weights.
OnWeightsChange(w) ==
    /\ state.showWeightConfig
    /\ Len(heap) < MaxHeap
    /\ heap' = Append(heap, w)
    /\ state' = [state EXCEPT !.weights = Len(heap) + 1]
    /\ UNCHANGED <<tcs, calls, inflight>>
    /\ UNCHANGED cvars

\* WeightConfig's onNodeWeightChange: state.weights.nodeWeights.set, in place.
OnNodeWeightChange(prefix, weight) ==
    /\ state.showWeightConfig
    /\ heap' = [heap EXCEPT ![state.weights].nodeWeights = MapSet(@, prefix, weight)]
    /\ UNCHANGED <<tcs, calls, inflight, state>>
    /\ UNCHANGED cvars

\* WeightConfig's onEdgeWeightChange: state.weights.edgeWeights.set, in place.
OnEdgeWeightChange(prefix, weight) ==
    /\ state.showWeightConfig
    /\ heap' = [heap EXCEPT ![state.weights].edgeWeights = MapSet(@, prefix, weight)]
    /\ UNCHANGED <<tcs, calls, inflight, state>>
    /\ UNCHANGED cvars

\* The alpha slider's onChange.
OnAlphaChange(valueAsNumber) ==
    /\ state.showWeightConfig
    /\ state' = [state EXCEPT !.alpha = valueAsNumber]
    /\ UNCHANGED <<heap, tcs, calls, inflight>>
    /\ UNCHANGED cvars

\* The "Show/Hide weight configuration" button's onClick.
ToggleWeightConfig ==
    /\ state' = [state EXCEPT !.showWeightConfig = ~state.showWeightConfig]
    /\ UNCHANGED <<heap, tcs, calls, inflight>>
    /\ UNCHANGED cvars

\* The filter select's onChange: e.target.value || null.
OnFilterChangeNoNull(value) ==
    /\ state' = [state EXCEPT !.selectedNodeTypePrefix = Some(value)]
    /\ UNCHANGED <<heap, tcs, calls, inflight>>
    /\ UNCHANGED cvars

OnFilterChange(value) ==
    /\ state' = [state EXCEPT !.selectedNodeTypePrefix =
                                  IF value = "" THEN Null ELSE Some(value)]
    /\ UNCHANGED <<heap, tcs, calls, inflight>>
    /\ UNCHANGED cvars

Next ==
    \/ ClickAnalyzeButton
    \/ CallAnalyzeCred
    \/ \E c \in inflight : AnalyzeCredResolve(c)
    \/ \E w \in UploadedWeights : OnWeightsChange(w)
    \/ \E prefix \in NodePrefixes, weight \in NodeWeightValues :
          OnNodeWeightChange(prefix, weight)
    \/ \E prefix \in EdgePrefixes, weight \in EdgeWeightValues :
          OnEdgeWeightChange(prefix, weight)
    \/ \E v \in SliderInputs : OnAlphaChange(v)
    \/ ToggleWeightConfig
    \/ \E value \in FilterOptionValues : OnFilterChange(value)

Spec == Init /\ [][Next]_vars

-----------------------------------------------------------------------------
(* TimelineExplorer: properties *)

\* Invocations a and b overlap: b was invoked while a's promise was pending.
\* Every resolve makes its TimelineCred the held one, so a resolved before b
\* was invoked exactly when a's result is no newer than the one b was
\* invoked on.
ResultOf(a) == CHOOSE k \in DOMAIN tcs : tcs[k].call = a
Overlap(a, b) ==
    /\ a < b
    /\ a \in inflight \/ ResultOf(a) > calls[b].base

\* C1: when two overlapping analyzeCred invocations have both resolved, the
\* held TimelineCred, if it is the result of one of them, is the result of
\* the one invoked later, whatever the order in which they resolved.
C1_LaterInvokedRetained ==
    \A a, b \in DOMAIN calls :
        (/\ a \notin inflight
         /\ b \notin inflight
         /\ Overlap(a, b)
         /\ Held.call \in {a, b}) => Held.call = b

\* The weights objects of the TimelineCreds: the initial one, every one that
\* was held, and those being computed.
TimelineCredWeights ==
    {tcs[k].weights : k \in DOMAIN tcs} \cup {calls[c].weights : c \in inflight}

\* A step that changes an object of the heap in place.
InPlaceEdit == \E r \in DOMAIN heap : heap'[r] # heap[r]

C2_NoAlias == state.weights \notin TimelineCredWeights

C2_EditKeepsTimelineCreds ==
    InPlaceEdit => \A r \in TimelineCredWeights : heap'[r] = heap[r]

\* C2: state.weights is never the weights object of a TimelineCred (initial,
\* held, or being computed), and an edit of weights in place changes the
\* weights of no TimelineCred.
C2_WeightsNeverAliased == [](C2_NoAlias) /\ [][C2_EditKeepsTimelineCreds]_vars

C2_Witness ==
    /\ Len(tcs) >= 2
    /\ inflight # {}
    /\ heap[state.weights] # heap[Held.weights]
    /\ \A c \in inflight : heap[state.weights] # heap[calls[c].weights]
    /\ heap[state.weights] # heap[tcs[1].weights]

\* The step is the completion of an analyzeCred invocation: its result is a
\* new TimelineCred of the weights and params passed, which becomes the held one.
IsResolveStep ==
    \E c \in inflight :
        /\ inflight' = inflight \ {c}
        /\ Len(tcs') = Len(tcs) + 1
        /\ tcs'[Len(tcs')].weights = calls[c].weights
        /\ tcs'[Len(tcs')].params = calls[c].params
        /\ state'.timelineCred = Len(tcs')

\* C3: state.timelineCred changes only at the completion of analyzeCred, to
\* the result of the resolved reanalyze, and no step changes a TimelineCred
\* that exists (its params, its weights reference or the weights' content).
C3_ReplacedNotMutated ==
    [][/\ state'.timelineCred # state.timelineCred => IsResolveStep
       /\ \A k \in DOMAIN tcs :
            /\ k \in DOMAIN tcs'
            /\ tcs'[k] = tcs[k]
            /\ heap'[tcs[k].weights] = heap[tcs[k].weights]]_vars

C3_Witness ==
    /\ state.timelineCred = 2
    /\ Len(tcs) = 2
    /\ heap[state.weights] # heap[Held.weights]
    /\ heap[state.weights] # heap[tcs[1].weights]
    /\ state.alpha # Held.params.alpha

\* The current alpha, intervalDecay and weights equal those of the held
\* TimelineCred, as values.
StructurallyUpToDate ==
    /\ state.alpha = Held.params.alpha
    /\ state.intervalDecay = Held.params.intervalDecay
    /\ heap[state.weights] = heap[Held.weights]

C4_EnabledIff == (~ButtonDisabled) <=> (~state.loading /\ ~StructurallyUpToDate)

C4_ClickPassesNewValues ==
    ClickAnalyzeButton =>
        LET c == calls'[Len(calls')] IN
            ~(/\ c.params = tcs[c.base].params
              /\ heap'[c.weights] = heap'[tcs[c.base].weights])

\* C4: the button is enabled exactly when loading is false and the current
\* (alpha, intervalDecay, weights) differ from the held TimelineCred's, and a
\* click never passes reanalyze weights and params equal to the held ones.
C4_ButtonEnabledIffChanged == [](C4_EnabledIff) /\ [][C4_ClickPassesNewValues]_vars

C4_Witness ==
    /\ Len(tcs) >= 2
    /\ ~ButtonDisabled
    /\ state.alpha = Held.params.alpha
    /\ Held.params.alpha # tcs[1].params.alpha

\* C5: the params of every analyzeCred invocation have alpha in (0,1) and
\* intervalDecay in [0,1]; alpha is the initial alpha or a slider value in
\* [0.05, 0.95], intervalDecay is the initial intervalDecay.
C5_ParamsInRange ==
    \A c \in DOMAIN calls :
        /\ calls[c].params.alpha > 0
        /\ calls[c].params.alpha < 100
        /\ calls[c].params.intervalDecay >= 0
        /\ calls[c].params.intervalDecay <= 100
        /\ \/ calls[c].params.alpha = tcs[1].params.alpha
           \/ calls[c].params.alpha \in SliderMin..SliderMax
        /\ calls[c].params.intervalDecay = tcs[1].params.intervalDecay

C5_Witness ==
    /\ Len(calls) = 2
    /\ calls[1].params.alpha = SliderMin
    /\ calls[2].params.alpha = SliderMax
    /\ tcs[1].params.alpha \notin SliderMin..SliderMax

\* C6: a step that changes state.selectedNodeTypePrefix changes nothing else
\* (no reanalyze is started), and never selects the empty option value: that
\* one is null.
C6_FilterChangesOnlyFilter ==
    [][state'.selectedNodeTypePrefix # state.selectedNodeTypePrefix =>
          /\ state' = [state EXCEPT !.selectedNodeTypePrefix = state'.selectedNodeTypePrefix]
          /\ state'.selectedNodeTypePrefix # Some("")
          /\ UNCHANGED <<heap, tcs, calls, inflight>>]_vars

C6_Witness ==
    /\ state.selectedNodeTypePrefix = Some("n")
    /\ inflight # {}
    /\ state.loading

\* The step starts invocation Len(calls) + 1 of analyzeCred.
IsStartStep == Len(calls') = Len(calls) + 1

\* The current alpha, intervalDecay and weights equal, as values, the params
\* and weights invocation c passed to reanalyze.
EqualsSnapshot(c) ==
    /\ state.alpha = calls[c].params.alpha
    /\ state.intervalDecay = calls[c].params.intervalDecay
    /\ heap[state.weights] = heap[calls[c].weights]

\* C13: what analyzeCred passes to reanalyze is the alpha, intervalDecay and
\* weights of the moment of the invocation; no step (weight edit, upload,
\* alpha change) changes what a pending invocation passed; and when an
\* invocation completes, the button is enabled exactly when the current
\* values differ from what that invocation passed, which is what the new held
\* TimelineCred records.
C13_InFlightSnapshot ==
    [][/\ IsStartStep =>
            /\ calls'[Len(calls')].params = Params
            /\ heap'[calls'[Len(calls')].weights] = heap[state.weights]
       /\ \A c \in inflight :
            /\ calls'[c] = calls[c]
            /\ heap'[calls[c].weights] = heap[calls[c].weights]
       /\ \A c \in inflight \ inflight' :
            /\ Held'.params = calls[c].params
            /\ heap'[Held'.weights] = heap[calls[c].weights]
            /\ (~ButtonDisabled') <=> ~EqualsSnapshot(c)']_vars

C13_Witness ==
    /\ Len(tcs) = 2
    /\ Held.call = 1
    /\ inflight = {2}
    /\ ~EqualsSnapshot(1)
    /\ heap[state.weights] # heap[calls[2].weights]
    /\ state.alpha # calls[2].params.alpha

-----------------------------------------------------------------------------
(* sourcecred init: values *)

\* The words of an argument list: the options, a GitHub spec, Discourse urls
\* with and without a trailing slash, and the bare scheme "https://".
Tokens ==
    {<<"--help">>, <<"--github">>, <<"--discourse">>, <<"--force">>, <<"--print">>,
     <<"o/r">>, <<"https:/", "/", "d">>, <<"http:/", "/", "d", "/">>, <<"https:/", "/">>}

ArgLists == UNION {[1..n -> Tokens] : n \in 0..MaxArgs}

\* SOURCECRED_GITHUB_TOKEN: unset, empty, or a token.
EnvTokens == {Null, Some(""), Some("tok")}

\* sourcecred.json before the command starts: absent, or somebody's file.
ForeignFile(who) == Some([by |-> who, text |-> Null])
InitialFiles == {Null, ForeignFile("old")}

\* discourseUrl.match(new RegExp("^https?://"))
MatchesHttp(url) ==
    /\ Len(url) >= 2
    /\ url[1] \in {"http:/", "https:/"}
    /\ url[2] = "/"

\* discourseUrl.endsWith("/")
EndsWithSlash(url) == Len(url) > 0 /\ url[Len(url)] = "/"

\* discourseUrl.slice(0, discourseUrl.length - 1)
DropLast(url) == SubSeq(url, 1, Len(url) - 1)

\* !githubToken: null, undefined and "" are falsy.
Falsy(token) == token = Null \/ token = Some("")

\* createProject({id, repoIds, discourseServer})
CreateProject(repoIds, discourseUrl) ==
    [id |-> "obsolete-id",
     repoIds |-> repoIds,
     discourseServer |-> IF discourseUrl # Null /\ discourseUrl # Some(<<>>)
                         THEN Some([serverUrl |-> discourseUrl[1]])
                         ELSE Null]

\* stringify(projectToJSON(project), {space: 4})
Stringified(project) == [json |-> project, space |-> 4]

\* What outputProject prints, and what it writes: the same text and "\n".
ProjectLine(project) == [kind |-> "project", text |-> Some(Stringified(project)), newline |-> FALSE]
UsageLine == [kind |-> "usage", text |-> Null, newline |-> FALSE]
ProjectFile(project) == Some([by |-> "init", text |-> Some([text |-> Stringified(project), newline |-> TRUE])])

\* The repoIds of the subproject that specToProject gives for a spec.
SubprojectRepoIds(spec) == <<spec>>

-----------------------------------------------------------------------------
(* sourcecred init: the command *)

\* The explorer's variables while the command runs: no component is mounted.
ExplorerIdle ==
    /\ heap = <<>>
    /\ tcs = <<>>
    /\ calls = <<>>
    /\ inflight = {}
    /\ state = Null

InitCli ==
    /\ args \in ArgLists
    /\ env \in EnvTokens
    /\ file \in InitialFiles
    /\ pc = "parse"
    /\ opts = [withForce |-> FALSE, printToStdOut |-> FALSE,
               discourseUrl |-> Null, githubSpecs |-> <<>>]
    /\ i = 0
    /\ locals = [fileAlreadyExists |-> FALSE, githubToken |-> Null,
                 repoIds |-> <<>>, k |-> 0, project |-> Null]
    /\ stdout = <<>>
    /\ stderr = <<>>
    /\ exitCode = Null
    /\ trace = <<>>
    /\ ExplorerIdle

\* die(std, message): two lines on stderr, and the command returns 1.
Die(message) ==
    /\ stderr' = stderr \o <<<<"fatal: ", message>>,
                             <<"fatal: ", "run 'sourcecred help init' for help">>>>
    /\ exitCode' = Some(1)
    /\ pc' = "done"

\* initCommand's loop is at argument args[i] (0-based), the model's args[i + 1].
AtArg(word) ==
    /\ pc = "parse"
    /\ i < Len(args)
    /\ args[i + 1] = word

\* case "--help"
ParseHelpAsError ==
    /\ AtArg(<<"--help">>)
    /\ stderr' = Append(stderr, <<"usage", "">>)
    /\ exitCode' = Some(1)
    /\ pc' = "done"
    /\ UNCHANGED <<args, env, file, opts, i, locals, stdout, trace>>
    /\ UNCHANGED evars

ParseHelp ==
    /\ AtArg(<<"--help">>)
    /\ stdout' = Append(stdout, UsageLine)
    /\ exitCode' = Some(0)
    /\ pc' = "done"
    /\ UNCHANGED <<args, env, file, opts, i, locals, stderr, trace>>
    /\ UNCHANGED evars

\* case "--github"
ParseGithub ==
    /\ AtArg(<<"--github">>)
    /\ IF i + 1 >= Len(args)
       THEN /\ Die("--github given without value")
            /\ i' = i + 1
            /\ UNCHANGED opts
       ELSE /\ opts' = [opts EXCEPT !.githubSpecs = Append(@, args[i + 2])]
            /\ i' = i + 2
            /\ UNCHANGED <<pc, stderr, exitCode>>
    /\ UNCHANGED <<args, env, file, locals, stdout, trace>>
    /\ UNCHANGED evars

\* case "--discourse"
ParseDiscourse ==
    /\ AtArg(<<"--discourse">>)
    /\ IF opts.discourseUrl # Null
       THEN /\ Die("--discourse given multiple times")
            /\ UNCHANGED <<opts, i>>
       ELSE IF i + 1 >= Len(args)
       THEN /\ Die("--discourse given without value")
            /\ i' = i + 1
            /\ UNCHANGED opts
       ELSE IF ~MatchesHttp(args[i + 2])
       THEN /\ Die("invalid discourse url: must start with http:// or https://")
            /\ opts' = [opts EXCEPT !.discourseUrl = Some(args[i + 2])]
            /\ i' = i + 1
       ELSE /\ opts' = [opts EXCEPT !.discourseUrl =
                          IF EndsWithSlash(args[i + 2])
                          THEN Some(DropLast(args[i + 2]))
                          ELSE Some(args[i + 2])]
            /\ i' = i + 2
            /\ UNCHANGED <<pc, stderr, exitCode>>
    /\ UNCHANGED <<args, env, file, locals, stdout, trace>>
    /\ UNCHANGED evars

\* case "--force"
ParseForce ==
    /\ AtArg(<<"--force">>)
    /\ opts' = [opts EXCEPT !.withForce = TRUE]
    /\ i' = i + 1
    /\ UNCHANGED <<args, env, file, pc, locals, stdout, stderr, exitCode, trace>>
    /\ UNCHANGED evars

\* case "--print"
ParsePrint ==
    /\ AtArg(<<"--print">>)
    /\ opts' = [opts EXCEPT !.printToStdOut = TRUE]
    /\ i' = i + 1
    /\ UNCHANGED <<args, env, file, pc, locals, stdout, stderr, exitCode, trace>>
    /\ UNCHANGED evars

\* default
ParseUnexpected ==
    /\ pc = "parse"
    /\ i < Len(args)
    /\ args[i + 1] \notin {<<"--help">>, <<"--github">>, <<"--discourse">>,
                           <<"--force">>, <<"--print">>}
    /\ Die("Unexpected argument")
    /\ UNCHANGED <<args, env, file, opts, i, locals, stdout, trace>>
    /\ UNCHANGED evars

\* The loop is over: init(std, opts) is called.
ParseDone ==
    /\ pc = "parse"
    /\ i >= Len(args)
    /\ pc' = "exists"
    /\ UNCHANGED <<args, env, file, opts, i, locals, stdout, stderr, exitCode, trace>>
    /\ UNCHANGED evars

\* init, to the end of the existence check: fs.exists, and the refusal.
InitExistsNoCheck ==
    /\ pc = "exists"
    /\ locals' = [locals EXCEPT !.fileAlreadyExists = (file # Null)]
    /\ trace' = Append(trace, <<"exists", file>>)
    /\ pc' = "token"
    /\ UNCHANGED <<stderr, exitCode>>
    /\ UNCHANGED <<args, env, file, opts, i, stdout>>
    /\ UNCHANGED evars

InitExists ==
    /\ pc = "exists"
    /\ locals' = [locals EXCEPT !.fileAlreadyExists = (file # Null)]
    /\ trace' = Append(trace, <<"exists", file>>)
    /\ IF file # Null /\ ~(opts.withForce \/ opts.printToStdOut)
       THEN Die("refusing to overwrite sourcecred.json without --force")
       ELSE /\ pc' = "token"
            /\ UNCHANGED <<stderr, exitCode>>
    /\ UNCHANGED <<args, env, file, opts, i, stdout>>
    /\ UNCHANGED evars

\* init: Common.githubToken(), then generateProject is called.
InitToken ==
    /\ pc = "token"
    /\ locals' = [locals EXCEPT !.githubToken = env]
    /\ trace' = Append(trace, <<"githubToken", env>>)
    /\ pc' = "generate"
    /\ UNCHANGED <<args, env, file, opts, i, stdout, stderr, exitCode>>
    /\ UNCHANGED evars

\* generateProject: specs were given and there is no token.
NoTokenNullOnly == locals.githubToken = Null /\ Len(opts.githubSpecs) > 0

NoToken == Falsy(locals.githubToken) /\ Len(opts.githubSpecs) > 0

GenerateNoToken ==
    /\ pc = "generate"
    /\ NoToken
    /\ Die("tried to load GitHub specs, but no GitHub token provided")
    /\ UNCHANGED <<args, env, file, opts, i, locals, stdout, trace>>
    /\ UNCHANGED evars

\* generateProject's loop: specToProject(spec, token) is called and awaited;
\* it gives a subproject, or it throws.
GenerateSpec ==
    /\ pc = "generate"
    /\ ~NoToken
    /\ locals.k < Len(opts.githubSpecs)
    /\ trace' = Append(trace, <<"specToProject", opts.githubSpecs[locals.k + 1]>>)
    /\ \/ /\ locals' = [locals EXCEPT
                          !.repoIds = @ \o SubprojectRepoIds(opts.githubSpecs[locals.k + 1]),
                          !.k = @ + 1]
          /\ UNCHANGED <<pc, stderr, exitCode>>
       \/ /\ Die("specToProject failed")
          /\ UNCHANGED locals
    /\ UNCHANGED <<args, env, file, opts, i, stdout>>
    /\ UNCHANGED evars

\* generateProject's end: the project is created and returned.
GenerateDone ==
    /\ pc = "generate"
    /\ ~NoToken
    /\ locals.k >= Len(opts.githubSpecs)
    /\ locals' = [locals EXCEPT !.project = Some(CreateProject(locals.repoIds, opts.discourseUrl))]
    /\ pc' = "output"
    /\ UNCHANGED <<args, env, file, opts, i, stdout, stderr, exitCode, trace>>
    /\ UNCHANGED evars

\* outputProject: the project is printed, or written to sourcecred.json;
\* then init returns 0.
OutputProjectAlsoWrites ==
    /\ pc = "output"
    /\ IF opts.printToStdOut
       THEN /\ stdout' = Append(stdout, ProjectLine(locals.project[1]))
            /\ file' = ProjectFile(locals.project[1])
            /\ trace' = Append(trace, <<"writeFile", file>>)
       ELSE /\ file' = ProjectFile(locals.project[1])
            /\ trace' = Append(trace, <<"writeFile", file>>)
            /\ UNCHANGED stdout
    /\ exitCode' = Some(0)
    /\ pc' = "done"
    /\ UNCHANGED <<args, env, opts, i, locals, stderr>>
    /\ UNCHANGED evars

OutputProject ==
    /\ pc = "output"
    /\ IF opts.printToStdOut
       THEN /\ stdout' = Append(stdout, ProjectLine(locals.project[1]))
            /\ trace' = Append(trace, <<"print", file>>)
            /\ UNCHANGED file
       ELSE /\ file' = ProjectFile(locals.project[1])
            /\ trace' = Append(trace, <<"writeFile", file>>)
            /\ UNCHANGED stdout
    /\ exitCode' = Some(0)
    /\ pc' = "done"
    /\ UNCHANGED <<args, env, opts, i, locals, stderr>>
    /\ UNCHANGED evars

\* Another process creates sourcecred.json while the command runs.
OtherProcessCreates ==
    /\ pc \notin {"done", "idle"}
    /\ file = Null
    /\ file' = ForeignFile("other")
    /\ UNCHANGED <<args, env, pc, opts, i, locals, stdout, stderr, exitCode, trace>>
    /\ UNCHANGED evars

NextCli ==
    \/ ParseHelp
    \/ ParseGithub
    \/ ParseDiscourse
    \/ ParseForce
    \/ ParsePrint
    \/ ParseUnexpected
    \/ ParseDone
    \/ InitExists
    \/ InitToken
    \/ GenerateNoToken
    \/ GenerateSpec
    \/ GenerateDone
    \/ OutputProject
    \/ OtherProcessCreates

SpecCli == InitCli /\ [][NextCli]_vars

-----------------------------------------------------------------------------
(* sourcecred init: properties *)

\* init was called and has checked whether sourcecred.json exists; trace[1]
\* holds what the check saw.
InitCalled == trace # <<>>
FileAtCheck == trace[1][2]

Happened(what) == \E k \in DOMAIN trace : trace[k][1] = what

\* The file existed at the check, and neither --force nor --print was given.
RefusalCase ==
    /\ InitCalled
    /\ FileAtCheck # Null
    /\ ~opts.withForce
    /\ ~opts.printToStdOut

RefusalMessage == "refusing to overwrite sourcecred.json without --force"

\* C7: when the file exists at the check and neither --force nor --print was
\* given, the command returns 1 with the refusal on stderr, before any token
\* lookup, specToProject call or write, and the file is left as it was.
C7_RefusesToOverwrite ==
    RefusalCase =>
        /\ pc = "done"
        /\ exitCode = Some(1)
        /\ stderr[1] = <<"fatal: ", RefusalMessage>>
        /\ stdout = <<>>
        /\ Len(trace) = 1
        /\ file = FileAtCheck

C7_Witness ==
    /\ RefusalCase
    /\ pc = "done"
    /\ Len(opts.githubSpecs) > 0
    /\ ~Falsy(env)

\* C8: without --force and without --print, the command writes
\* sourcecred.json only if the file does not exist at the moment of the write.
C8_WritesOnlyIfAbsent ==
    (~opts.withForce /\ ~opts.printToStdOut) =>
        \A k \in DOMAIN trace : trace[k][1] = "writeFile" => trace[k][2] = Null

\* C9: with --print the command never writes sourcecred.json (the file is
\* what it was, or another process's), a file that exists is not refused, and
\* when init returns 0 the serialized project is the one line on stdout.
C9_PrintNeverWrites ==
    opts.printToStdOut =>
        /\ ~Happened("writeFile")
        /\ InitCalled =>
            /\ file \in {FileAtCheck, ForeignFile("other")}
            /\ stderr # <<>> => stderr[1][2] # RefusalMessage
            /\ (pc = "done" /\ exitCode = Some(0)) =>
                  stdout = <<ProjectLine(CreateProject(locals.repoIds, opts.discourseUrl))>>
            /\ (pc = "done" /\ exitCode = Some(1)) => stdout = <<>>

C9_Witness ==
    /\ opts.printToStdOut
    /\ ~opts.withForce
    /\ InitCalled
    /\ FileAtCheck # Null
    /\ pc = "done"
    /\ exitCode = Some(0)
    /\ Len(stdout) = 1
    /\ Len(opts.githubSpecs) > 0

\* C10: when init runs with at least one GitHub spec and no token (unset or
\* empty), it returns 1, calls specToProject for no spec, and neither writes
\* nor prints a project; with no GitHub spec and no token it returns 0 unless
\* it refused to overwrite.
C10_SpecsNeedToken ==
    (InitCalled /\ Falsy(env)) =>
        /\ Len(opts.githubSpecs) > 0 =>
            /\ ~Happened("specToProject")
            /\ ~Happened("writeFile")
            /\ ~Happened("print")
            /\ stdout = <<>>
            /\ file \in {FileAtCheck, ForeignFile("other")}
            /\ pc = "done" => exitCode = Some(1)
        /\ (Len(opts.githubSpecs) = 0 /\ pc = "done" /\ ~RefusalCase) =>
            exitCode = Some(0)

C10_Witness ==
    /\ InitCalled
    /\ env = Some("")
    /\ Len(opts.githubSpecs) > 0
    /\ opts.printToStdOut
    /\ pc = "done"
    /\ exitCode = Some(1)
    /\ stderr[1][2] = "tried to load GitHub specs, but no GitHub token provided"

\* The projects the command has produced: printed, or written to the file.
ProducedProjects ==
    {stdout[k].text[1].json : k \in {j \in DOMAIN stdout : stdout[j].kind = "project"}}
    \cup (IF file # Null /\ file[1].by = "init" THEN {file[1].text[1].text.json} ELSE {})

\* The command holds a url for --discourse, and the value that was given (the
\* url held, or that url and the "/" that was cut from it) does not start with
\* http:// or https://.
BadDiscourseValue ==
    /\ opts.discourseUrl # Null
    /\ ~MatchesHttp(opts.discourseUrl[1])
    /\ ~MatchesHttp(opts.discourseUrl[1] \o <<"/">>)

\* C11: every project the command produces with a discourseServer has a
\* serverUrl that starts with http:// or https://, and a --discourse value
\* that does not start with one of these makes the command return 1 and
\* produce no project.
C11_ServerUrlIsHttp ==
    /\ \A project \in ProducedProjects :
          project.discourseServer # Null =>
              MatchesHttp(project.discourseServer[1].serverUrl)
    /\ BadDiscourseValue =>
          /\ pc = "done"
          /\ exitCode = Some(1)
          /\ ProducedProjects = {}

\* "--help" is among the arguments.
HasHelp == \E k \in DOMAIN args : args[k] = <<"--help">>

\* C12 as claimed: whenever "--help" is among the arguments, the command
\* does nothing of init (no existence check, token lookup, specToProject
\* call, print or write of a project), and it ends with the usage text on
\* stdout and 0.
C12_HelpAnywhere ==
    HasHelp =>
        /\ trace = <<>>
        /\ pc = "done" => (exitCode = Some(0) /\ stdout = <<UsageLine>>)

\* The arguments from position k on lead the option loop to "--help": each
\* argument before it is --force, --print, --github with a value, or the
\* first --discourse with a value that starts with http:// or https://.
RECURSIVE HelpInOptionPosition(_, _)
HelpInOptionPosition(k, discourseSeen) ==
    IF k > Len(args) THEN FALSE
    ELSE IF args[k] = <<"--help">> THEN TRUE
    ELSE IF args[k] \in {<<"--force">>, <<"--print">>}
         THEN HelpInOptionPosition(k + 1, discourseSeen)
    ELSE IF args[k] = <<"--github">>
         THEN k + 1 <= Len(args) /\ HelpInOptionPosition(k + 2, discourseSeen)
    ELSE IF args[k] = <<"--discourse">>
         THEN /\ ~discourseSeen
              /\ k + 1 <= Len(args)
              /\ MatchesHttp(args[k + 1])
              /\ HelpInOptionPosition(k + 2, TRUE)
    ELSE FALSE

\* C12, amended: whenever the option loop reaches a "--help" (it is not the
\* value of --github or --discourse, and no argument before it is an error),
\* the command does nothing of init and ends with the usage text as its only
\* output and 0.
C12_HelpInOptionPosition ==
    HelpInOptionPosition(1, FALSE) =>
        /\ trace = <<>>
        /\ pc \in {"parse", "done"}
        /\ pc = "done" =>
              /\ exitCode = Some(0)
              /\ stdout = <<UsageLine>>
              /\ stderr = <<>>

C12_Witness ==
    /\ Len(args) = 3
    /\ args[1] = <<"--github">>
    /\ args[3] = <<"--help">>
    /\ pc = "done"
    /\ exitCode = Some(0)
    /\ opts.githubSpecs # <<>>

=============================================================================
